---- MODULE Spec2Model ----
(***************************************************************************)
(* Model of the natural-language-to-SQL answer pipeline of the video       *)
(* statistics bot: VideoDatabaseAnalyzer (src/LLM/LLM_manager.py), the     *)
(* command and text-message handlers of TelegramBot                        *)
(* (src/handlers/main_handler.py) and the inserts of DataBaseManager       *)
(* (src/database/database_settings.py).                                    *)
(*                                                                         *)
(* Text is a sequence of one-character strings, so that strip, split,      *)
(* lower, startswith, `in`, replace and the thousands grouping are         *)
(* computed character by character as Python computes them.  The Russian  *)
(* literals of the source are written transliterated (the module is        *)
(* ASCII); spaces and newlines stand where the source has them.  Error     *)
(* messages (str(e)) and the fixed chunks of the handler's HTML texts are  *)
(* opaque strings.  An optional value (Python None) is <<>> and a present  *)
(* value x is <<x>>.                                                       *)
(***************************************************************************)
EXTENDS Integers, Sequences, FiniteSets, TLC

VARIABLES
    constructed,   \* VideoDatabaseAnalyzer.__init__ has run
    db_schema,     \* self.db_schema
    system_prompt, \* self.system_prompt
    locked,        \* self.lock._locked
    waiters,       \* self.lock._waiters (FIFO)
    pc,            \* position of each request's handler coroutine
    loc,           \* locals of generate_sql_and_answer, per request
    result,        \* the dictionary generate_sql_and_answer returned
    sent,          \* the text the handler sent to the end user
    introspection, \* the store __init__ read and the read of it that failed
    db             \* the rows of videos and snapshots in DataBaseManager's connection

vars == <<constructed, db_schema, system_prompt, locked, waiters, pc, loc,
          result, sent, introspection, db>>

----------------------------------------------------------------------------
(* Bounds of the model.                                                    *)

NumReqs == 2
MaxRows == 2
MaxMillions == 2

----------------------------------------------------------------------------
(* Optional values.                                                        *)

None == <<>>
Some(x) == <<x>>

----------------------------------------------------------------------------
(* Python str operations on sequences of characters.                       *)

Whitespace == {" ", "\n", "\t", "\r"}

UpperCase == <<"A", "B", "C", "D", "E", "F", "G", "H", "I", "J", "K", "L", "M",
               "N", "O", "P", "Q", "R", "S", "T", "U", "V", "W", "X", "Y", "Z">>
LowerCase == <<"a", "b", "c", "d", "e", "f", "g", "h", "i", "j", "k", "l", "m",
               "n", "o", "p", "q", "r", "s", "t", "u", "v", "w", "x", "y", "z">>

LowerChar(c) ==
    IF \E i \in 1..Len(UpperCase) : UpperCase[i] = c
    THEN LowerCase[CHOOSE i \in 1..Len(UpperCase) : UpperCase[i] = c]
    ELSE c

\* str.lower()
Lower(s) == [i \in 1..Len(s) |-> LowerChar(s[i])]

\* the characters of s from index i on
From(s, i) == SubSeq(s, i, Len(s))

RECURSIVE LStrip(_)
LStrip(s) ==
    IF s # <<>> /\ Head(s) \in Whitespace THEN LStrip(Tail(s)) ELSE s

RECURSIVE RStrip(_)
RStrip(s) ==
    IF s # <<>> /\ s[Len(s)] \in Whitespace
    THEN RStrip(SubSeq(s, 1, Len(s) - 1))
    ELSE s

\* str.strip()
Strip(s) == RStrip(LStrip(s))

\* sub occurs in s at index i
OccursAt(s, sub, i) ==
    /\ i >= 1
    /\ i + Len(sub) - 1 <= Len(s)
    /\ SubSeq(s, i, i + Len(sub) - 1) = sub

\* str.startswith(p)
StartsWith(s, p) == OccursAt(s, p, 1)

\* `sub in s`
Contains(s, sub) == \E i \in 1..Len(s) : OccursAt(s, sub, i)

\* str.find(sub) + 1: the first index at which sub occurs, 0 when it does not
Find(s, sub) ==
    IF Contains(s, sub)
    THEN CHOOSE i \in 1..Len(s) :
            /\ OccursAt(s, sub, i)
            /\ \A j \in 1..(i - 1) : ~OccursAt(s, sub, j)
    ELSE 0

\* str.split(sep): every non-overlapping occurrence, left to right
RECURSIVE Split(_, _)
Split(s, sep) ==
    IF Find(s, sep) = 0
    THEN <<s>>
    ELSE <<SubSeq(s, 1, Find(s, sep) - 1)>>
            \o Split(From(s, Find(s, sep) + Len(sep)), sep)

\* str.replace(c, "") for a one-character c
RECURSIVE RemoveChar(_, _)
RemoveChar(s, c) ==
    IF s = <<>> THEN <<>>
    ELSE IF Head(s) = c THEN RemoveChar(Tail(s), c)
    ELSE <<Head(s)>> \o RemoveChar(Tail(s), c)

\* str.replace(a, b) for one-character a and b
ReplaceChar(s, a, b) == [i \in 1..Len(s) |-> IF s[i] = a THEN b ELSE s[i]]

Digits == <<"0", "1", "2", "3", "4", "5", "6", "7", "8", "9">>

\* the decimal digits of a natural number
RECURSIVE NatToStr(_)
NatToStr(n) ==
    IF n < 10 THEN <<Digits[n + 1]>>
    ELSE NatToStr(n \div 10) \o <<Digits[(n % 10) + 1]>>

\* str(n) of an int
IntToStr(n) == IF n < 0 THEN <<"-">> \o NatToStr(-n) ELSE NatToStr(n)

\* the digits d with sep put before every group of three counted from the right
RECURSIVE Group3(_, _)
Group3(d, sep) ==
    IF Len(d) <= 3 THEN d
    ELSE Group3(SubSeq(d, 1, Len(d) - 3), sep)
            \o <<sep>> \o SubSeq(d, Len(d) - 2, Len(d))

\* f"{n:,}" of an int
FormatComma(n) ==
    IF n < 0 THEN <<"-">> \o Group3(NatToStr(-n), ",")
    ELSE Group3(NatToStr(n), ",")

----------------------------------------------------------------------------
(* Literals of the source.                                                 *)

\* "Не удалось обработать запрос. Попробуйте сформулировать иначе."
FailureAnswer == <<"N", "e", " ", "u", "d", "a", "l", "o", "s", " ", "o", "b", "r", "a", "b", "o", "t", "a", "t", " ", "z", "a", "p", "r", "o", "s", ".", " ", "P", "o", "p", "r", "o", "b", "u", "y", "t", "e", " ", "s", "f", "o", "r", "m", "u", "l", "i", "r", "o", "v", "a", "t", " ", "i", "n", "a", "c", "h", "e", ".">>

\* "Данные не найдены"
NoDataAnswer == <<"D", "a", "n", "n", "y", "e", " ", "n", "e", " ", "n", "a", "y", "d", "e", "n", "y">>

\* ValueError("Неверный формат ответа от LLM")
MalformedMessage == "Nevernyy format otveta ot LLM"

\* ValueError("Сгенерирован не SELECT запрос")
NotSelectMessage == "Sgenerirovan ne SELECT zapros"

\* str(AttributeError) of response.text.strip() when response.text is None
NoTextMessage == "'NoneType' object has no attribute 'strip'"

BlankLine == <<"\n", "\n">>
SelectPrefix == <<"s", "e", "l", "e", "c", "t", " ">>
FromInfix == <<"f", "r", "o", "m", " ">>

\* the chunks of error_text around the reason, and the fallback text
ErrorTextHead == "X <b>Ne udalos obrabotat zapros</b>\n\nPrichina: "
ErrorTextTail == "\n\nPoprobuyte:\n1. Pereformulirovat vopros\n2. Ispolzovat bolee prostye formulirovki\n3. Proverit primery v /help\n"
UnknownError == "Neizvestnaya oshibka"

\* "⚠️ Произошла ошибка при обработке запроса."
ExceptionText == "Proizoshla oshibka pri obrabotke zaprosa."

\* the texts of start_command and help_command, and the chunks of stats_text
WelcomeText == "Privet! Ya bot-analizator statistiki video."
HelpText == "Pomosch po ispolzovaniyu bota:"
StatsTextHead == "<b>Statistika bazy dannyh:</b>\n\n"
StatsRowText == "  Zapisey: "

\* Command("start"), Command("help"), Command("stats"), in the order of their
\* registration
CommandNames == <<<<"s", "t", "a", "r", "t">>, <<"h", "e", "l", "p">>, <<"s", "t", "a", "t", "s">>>>

\* the classes of the exceptions raised inside generate_sql_and_answer: the
\* client's error, AttributeError, ValueError, sqlite3.OperationalError
ExceptionClasses == {"APIError", "AttributeError", "ValueError", "OperationalError"}

Error(cls, msg) == [cls |-> cls, msg |-> msg]

CaughtValueErrorOnly(cls) == cls = "ValueError"

\* except Exception as e
Caught(cls) == cls \in ExceptionClasses

----------------------------------------------------------------------------
(* Scalars a query returns: None (SQL NULL), an int, a text.               *)

NullValue == [t |-> "none"]
IntValue(n) == [t |-> "int", n |-> n]
TextValue(s) == [t |-> "text", s |-> s]

----------------------------------------------------------------------------
(* _get_database_schema.  The store is the sequence of its tables in name  *)
(* order, each with its row count.  The reads of one introspection are     *)
(* numbered: 1 connect, 2 list the tables, 2+i PRAGMA table_info of table  *)
(* i, 2+n+i the row count of table i.  failAt is the read that raises, 0   *)
(* when none does.  A failing sample read is swallowed by _get_sample_data *)
(* and is no failing read here.                                            *)

EmptySchema == [tables |-> <<>>, statistics |-> <<>>]

NumReads(store) == 2 + 2 * Len(store)

GetDatabaseSchema(store, failAt) ==
    LET n == Len(store)
        \* the tables whose schema["tables"] entry was created before the failure
        nTables == IF failAt = 0 THEN n
                   ELSE IF failAt <= 2 THEN 0
                   ELSE IF failAt <= 2 + n THEN failAt - 2
                   ELSE n
        \* the tables whose PRAGMA was read
        nColumns == IF failAt = 0 THEN n
                    ELSE IF failAt <= 2 THEN 0
                    ELSE IF failAt <= 2 + n THEN failAt - 3
                    ELSE n
        \* the tables whose row count was read
        nStats == IF failAt = 0 THEN n
                  ELSE IF failAt <= 2 + n THEN 0
                  ELSE failAt - 3 - n
    IN  [tables |-> [i \in 1..nTables |->
                        [name |-> store[i].name, columns |-> i <= nColumns]],
         statistics |-> [i \in 1..nStats |->
                        [name |-> store[i].name, row_count |-> store[i].rows]]]

\* _create_system_prompt: the template rendered from the tables of the schema,
\* with the placeholder {user_question}
CreateSystemPrompt(schema) == [schema |-> schema.tables, placeholder |-> TRUE]

\* system_prompt.replace("{user_question}", user_question)
FullPrompt(prompt, question) == [schema |-> prompt.schema, question |-> question]

----------------------------------------------------------------------------
(* The pure steps of generate_sql_and_answer.                              *)

ParsePartsOnNewline(text) == Split(Strip(text), <<"\n">>)

\* response.text.strip().split('\n\n')
ParseParts(text) == Split(Strip(text), BlankLine)

IsSelectQueryNoFrom(sql_query) == StartsWith(Lower(sql_query), SelectPrefix)

IsSelectQueryCaseSensitive(sql_query) ==
    /\ StartsWith(sql_query, SelectPrefix)
    /\ Contains(sql_query, FromInfix)

\* sql_query_lower.startswith('select ') and 'from ' in sql_query_lower
IsSelectQuery(sql_query) ==
    /\ StartsWith(Lower(sql_query), SelectPrefix)
    /\ Contains(Lower(sql_query), FromInfix)

FetchFirstRowWhole(rows) == IF rows = <<>> THEN NullValue ELSE rows[1][Len(rows[1])]

\* cursor.fetchone(), then result[0] if result else None
FetchFirst(rows) == IF rows = <<>> THEN NullValue ELSE rows[1][1]

FormatAnswerUngrouped(value) ==
    IF value = NullValue THEN NoDataAnswer
    ELSE IF value.t = "int" THEN IntToStr(value.n)
    ELSE value.s

\* _format_answer
FormatAnswer(value) ==
    IF value = NullValue THEN NoDataAnswer
    ELSE IF value.t = "int"
         THEN IF value.n >= 1000
              THEN ReplaceChar(FormatComma(value.n), ",", " ")
              ELSE IntToStr(value.n)
    ELSE value.s

\* the dictionary of a successful request
SuccessResult(sql_query, llm_answer, actual_result) ==
    [success |-> TRUE,
     sql_query |-> Some(sql_query),
     llm_suggested_answer |-> llm_answer,
     actual_result |-> actual_result,
     final_answer |-> FormatAnswer(actual_result)]

\* the dictionary of the except branch
FailureResult(error) ==
    [success |-> FALSE,
     error |-> Some(error),
     sql_query |-> None,
     final_answer |-> FailureAnswer]

HandlerTextKeepingSpaces(res) ==
    IF res.success
    THEN res.final_answer
    ELSE <<ErrorTextHead,
           IF "error" \in DOMAIN res THEN res.error[1] ELSE UnknownError,
           ErrorTextTail>>

\* handle_text_message: the text of message.answer
HandlerText(res) ==
    IF res.success
    THEN RemoveChar(res.final_answer, " ")
    ELSE <<ErrorTextHead,
           IF "error" \in DOMAIN res THEN res.error[1] ELSE UnknownError,
           ErrorTextTail>>

\* the first whitespace-separated word of a text: text.split(maxsplit=1)[0]
RECURSIVE UntilWhitespace(_)
UntilWhitespace(s) ==
    IF s = <<>> \/ Head(s) \in Whitespace THEN <<>>
    ELSE <<Head(s)>> \o UntilWhitespace(Tail(s))

FirstWord(text) == UntilWhitespace(LStrip(text))

CommandFilterPrefix(text, command) == StartsWith(text, <<"/">> \o command)

\* the filter Command(command): the first word of the text is the prefix "/"
\* and the command, compared case-sensitively.  The messages of the model
\* carry no @mention.
CommandFilter(text, command) == FirstWord(text) = <<"/">> \o command

\* stats_command: the text built from db_schema["statistics"]
RECURSIVE StatsRows(_)
StatsRows(stats) ==
    IF stats = <<>> THEN <<>>
    ELSE <<Head(stats).name, StatsRowText>> \o IntToStr(Head(stats).row_count)
            \o <<"\n">> \o StatsRows(Tail(stats))

StatsText(schema) == <<StatsTextHead>> \o StatsRows(schema.statistics)

----------------------------------------------------------------------------
(* DataBaseManager: the rows of the tables videos and snapshots, by their   *)
(* primary keys.  A snapshot row carries the video_id it was inserted      *)
(* with.  No PRAGMA foreign_keys is issued, so sqlite does not enforce the *)
(* FOREIGN KEY clause of create_tables.  The rows of an open transaction   *)
(* are not told apart from the committed ones.                             *)

\* create_tables
EmptyDb == [videos |-> {}, snapshots |-> {}]

SnapshotRow(snapshot_id, video_id) == [snapshot_id |-> snapshot_id, video_id |-> video_id]

\* INSERT OR REPLACE INTO videos
WithVideo(rows, video_id) == [rows EXCEPT !.videos = @ \cup {video_id}]

\* INSERT OR REPLACE INTO snapshots
WithSnapshot(rows, snapshot_id, video_id) ==
    [rows EXCEPT !.snapshots =
        {s \in @ : s.snapshot_id # snapshot_id} \cup {SnapshotRow(snapshot_id, video_id)}]

Table(name, rows) == [name |-> name, rows |-> rows]

\* the store as _get_database_schema reads it: the tables in name order, each
\* with its row count
StoreOf(rows) ==
    <<Table("snapshots", Cardinality(rows.snapshots)),
      Table("videos", Cardinality(rows.videos))>>

----------------------------------------------------------------------------
(* State of one request.                                                   *)

Reqs == 1..NumReqs

\* the stages of a request inside generate_sql_and_answer, lock held
InPipeline == {"Idle", "PromptBuilt", "Generated", "Parsed", "Validated", "Executed"}

\* the request has returned from generate_sql_and_answer
Returned == {"Formatted", "Failed"}

InitLoc ==
    [message |-> None,         \* message.text
     question |-> None,        \* user_question
     full_prompt |-> None,     \* full_prompt
     response |-> None,        \* response.text, once the call has returned
     parts |-> <<>>,           \* parts
     sql_query |-> None,       \* sql_query
     llm_answer |-> None,      \* llm_answer
     rows |-> None,            \* the result set of the statement
     actual_result |-> None,   \* actual_result
     analyzer_calls |-> 0,     \* calls of generate_sql_and_answer made for the message
     gen_calls |-> 0,          \* calls of generate_content made for the request
     executed |-> <<>>,        \* statements handed to _execute_sql_query
     conn |-> "none"]          \* conn of _execute_sql_query: "none" before
                               \* sqlite3.connect, then "open" until conn.close()

Init ==
    /\ constructed = FALSE
    /\ db_schema = EmptySchema
    /\ system_prompt = CreateSystemPrompt(EmptySchema)
    /\ locked = FALSE
    /\ waiters = <<>>
    /\ pc = [r \in Reqs |-> "idle"]
    /\ loc = [r \in Reqs |-> InitLoc]
    /\ result = [r \in Reqs |-> None]
    /\ sent = [r \in Reqs |-> None]
    /\ introspection = None
    /\ db = EmptyDb

----------------------------------------------------------------------------
(* VideoDatabaseAnalyzer.__init__                                          *)

\* conn of _get_database_schema when it returns: sqlite3.connect is read 1,
\* conn.close() follows the last read and is skipped by the except branch
SchemaConn(failAt) ==
    IF failAt = 0 THEN "closed" ELSE IF failAt = 1 THEN "none" ELSE "open"

Construct(Stores, FailPoints) ==
    /\ ~constructed
    /\ \E store \in Stores : \E failAt \in FailPoints \cap (0..NumReads(store)) :
          /\ db_schema' = GetDatabaseSchema(store, failAt)
          /\ system_prompt' = CreateSystemPrompt(GetDatabaseSchema(store, failAt))
          /\ introspection' = Some([store |-> store, failAt |-> failAt,
                                    conn |-> SchemaConn(failAt)])
    /\ constructed' = TRUE
    /\ locked' = FALSE
    /\ waiters' = <<>>
    /\ UNCHANGED <<pc, loc, result, sent, db>>

----------------------------------------------------------------------------
(* handle_text_message and generate_sql_and_answer                         *)

\* a text message that no Command filter takes arrives at handle_text_message:
\* user_question = message.text.strip(), the typing status is sent,
\* generate_sql_and_answer is called
Receive(r, Questions) ==
    /\ constructed
    /\ pc[r] = "idle"
    /\ \E q \in Questions :
          /\ \A i \in 1..Len(CommandNames) : ~CommandFilter(q, CommandNames[i])
          /\ loc' = [loc EXCEPT ![r] = [InitLoc EXCEPT !.message = Some(q),
                                                      !.question = Some(Strip(q)),
                                                      !.analyzer_calls = @ + 1]]
    /\ pc' = [pc EXCEPT ![r] = "called"]
    /\ UNCHANGED <<constructed, db_schema, system_prompt, introspection, db, locked, waiters,
                   result, sent>>

CanAcquireAlways == TRUE

\* Lock.acquire takes the lock at once when it is free and nobody waits
CanAcquire == ~locked /\ waiters = <<>>

\* async with self.lock, the lock is free
Acquire(r) ==
    /\ pc[r] = "called"
    /\ CanAcquire
    /\ locked' = TRUE
    /\ pc' = [pc EXCEPT ![r] = "Idle"]
    /\ UNCHANGED <<constructed, db_schema, system_prompt, introspection, db, waiters, loc,
                   result, sent>>

\* async with self.lock, the lock is held or others wait: queue up
Wait(r) ==
    /\ pc[r] = "called"
    /\ ~CanAcquire
    /\ waiters' = Append(waiters, r)
    /\ pc' = [pc EXCEPT ![r] = "waiting"]
    /\ UNCHANGED <<constructed, db_schema, system_prompt, introspection, db, locked, loc,
                   result, sent>>

\* the first waiter is woken by release and takes the lock
WakeUp(r) ==
    /\ pc[r] = "waiting"
    /\ waiters # <<>>
    /\ Head(waiters) = r
    /\ ~locked
    /\ locked' = TRUE
    /\ waiters' = Tail(waiters)
    /\ pc' = [pc EXCEPT ![r] = "Idle"]
    /\ UNCHANGED <<constructed, db_schema, system_prompt, introspection, db, loc, result, sent>>

ReleaseLockNever == locked' = locked

\* leaving the async with block: Lock.release
ReleaseLock == locked' = FALSE

FailRetrying(r, e) ==
    /\ result' = result
    /\ pc' = [pc EXCEPT ![r] = "Idle"]
    /\ locked' = locked

\* an exception e is raised inside the try block: the except branch returns
\* the failure dictionary, or e leaves generate_sql_and_answer; the lock is
\* released either way
Fail(r, e) ==
    /\ IF Caught(e.cls)
       THEN /\ result' = [result EXCEPT ![r] = Some(FailureResult(e.msg))]
            /\ pc' = [pc EXCEPT ![r] = "Failed"]
       ELSE /\ result' = [result EXCEPT ![r] = None]
            /\ pc' = [pc EXCEPT ![r] = "Raised"]
    /\ ReleaseLock

BuildPromptRefreshing(r) ==
    /\ pc[r] = "Idle"
    /\ db_schema' = GetDatabaseSchema(StoreOf(db), 0)
    /\ system_prompt' = CreateSystemPrompt(GetDatabaseSchema(StoreOf(db), 0))
    /\ loc' = [loc EXCEPT ![r].full_prompt =
                  Some(FullPrompt(CreateSystemPrompt(GetDatabaseSchema(StoreOf(db), 0)),
                                  loc[r].question[1]))]
    /\ pc' = [pc EXCEPT ![r] = "PromptBuilt"]
    /\ UNCHANGED <<constructed, introspection, db, locked, waiters, result, sent>>

\* full_prompt = self.system_prompt.replace("{user_question}", user_question)
BuildPrompt(r) ==
    /\ pc[r] = "Idle"
    /\ loc' = [loc EXCEPT ![r].full_prompt =
                  Some(FullPrompt(system_prompt, loc[r].question[1]))]
    /\ pc' = [pc EXCEPT ![r] = "PromptBuilt"]
    /\ UNCHANGED <<constructed, db_schema, system_prompt, introspection, db, locked, waiters,
                   result, sent>>

\* self.llm_client.models.generate_content(...): it raises, or returns a
\* response whose text is a string or None
Generate(r, Texts, GenErrors) ==
    /\ pc[r] = "PromptBuilt"
    /\ \/ \E t \in {Some(x) : x \in Texts} \cup {None} :
             /\ loc' = [loc EXCEPT ![r].response = Some(t),
                                   ![r].gen_calls = @ + 1]
             /\ pc' = [pc EXCEPT ![r] = "Generated"]
             /\ UNCHANGED <<locked, result>>
       \/ \E e \in GenErrors :
             /\ loc' = [loc EXCEPT ![r].gen_calls = @ + 1]
             /\ Fail(r, e)
    /\ UNCHANGED <<constructed, db_schema, system_prompt, introspection, db, waiters, sent>>

\* response_text = response.text.strip(); parts = response_text.split('\n\n');
\* len(parts) >= 2 gives sql_query and llm_answer
Parse(r) ==
    /\ pc[r] = "Generated"
    /\ LET text == loc[r].response[1]
       IN  IF text = None
           THEN /\ Fail(r, Error("AttributeError", NoTextMessage))
                /\ UNCHANGED loc
           ELSE \E parts \in {ParseParts(text[1])} :
                    IF Len(parts) >= 2
                    THEN /\ loc' = [loc EXCEPT
                                      ![r].parts = parts,
                                      ![r].sql_query = Some(Strip(parts[1])),
                                      ![r].llm_answer = Some(Strip(parts[2]))]
                         /\ pc' = [pc EXCEPT ![r] = "Parsed"]
                         /\ UNCHANGED <<locked, result>>
                    ELSE /\ loc' = [loc EXCEPT ![r].parts = parts]
                         /\ Fail(r, Error("ValueError", MalformedMessage))
    /\ UNCHANGED <<constructed, db_schema, system_prompt, introspection, db, waiters, sent>>

\* the check of sql_query_lower
Validate(r) ==
    /\ pc[r] = "Parsed"
    /\ IF IsSelectQuery(loc[r].sql_query[1])
       THEN /\ pc' = [pc EXCEPT ![r] = "Validated"]
            /\ UNCHANGED <<locked, result>>
       ELSE Fail(r, Error("ValueError", NotSelectMessage))
    /\ UNCHANGED <<constructed, db_schema, system_prompt, introspection, db, waiters, loc, sent>>

\* _execute_sql_query(sql_query): the result set comes back and conn.close()
\* runs, or cursor.execute raises and the except branch re-raises without it
Execute(r, ResultSets, SqlErrors) ==
    /\ pc[r] = "Validated"
    /\ \/ \E rows \in ResultSets :
             /\ loc' = [loc EXCEPT
                          ![r].executed = Append(@, loc[r].sql_query[1]),
                          ![r].rows = Some(rows),
                          ![r].conn = "closed",
                          ![r].actual_result = Some(FetchFirst(rows))]
             /\ pc' = [pc EXCEPT ![r] = "Executed"]
             /\ UNCHANGED <<locked, result>>
       \/ \E e \in SqlErrors :
             /\ loc' = [loc EXCEPT
                          ![r].executed = Append(@, loc[r].sql_query[1]),
                          ![r].conn = "open"]
             /\ Fail(r, e)
    /\ UNCHANGED <<constructed, db_schema, system_prompt, introspection, db, waiters, sent>>

\* the success dictionary is built with _format_answer and returned, the
\* lock released
Format(r) ==
    /\ pc[r] = "Executed"
    /\ result' = [result EXCEPT ![r] =
                    Some(SuccessResult(loc[r].sql_query[1], loc[r].llm_answer[1],
                                       loc[r].actual_result[1]))]
    /\ pc' = [pc EXCEPT ![r] = "Formatted"]
    /\ ReleaseLock
    /\ UNCHANGED <<constructed, db_schema, system_prompt, introspection, db, waiters, loc, sent>>

\* handle_text_message: message.answer(response_text) or
\* message.answer(error_text), or the text of its own except branch
Reply(r) ==
    /\ pc[r] \in Returned \cup {"Raised"}
    /\ sent' = [sent EXCEPT ![r] =
                  IF pc[r] = "Raised"
                  THEN Some(<<ExceptionText>>)
                  ELSE Some(HandlerText(result[r][1]))]
    /\ pc' = [pc EXCEPT ![r] = "replied"]
    /\ UNCHANGED <<constructed, db_schema, system_prompt, introspection, db, locked, waiters,
                   loc, result>>

\* the handler returns; its locals are gone
Finish(r) ==
    /\ pc[r] = "replied"
    /\ pc' = [pc EXCEPT ![r] = "idle"]
    /\ loc' = [loc EXCEPT ![r] = InitLoc]
    /\ result' = [result EXCEPT ![r] = None]
    /\ sent' = [sent EXCEPT ![r] = None]
    /\ UNCHANGED <<constructed, db_schema, system_prompt, introspection, db, locked, waiters>>

----------------------------------------------------------------------------
(* The command handlers of TelegramBot.  The dispatcher hands a message to *)
(* the first registered handler whose filter takes it.                     *)

\* message text m goes to the handler of command number k
Routed(m, k) ==
    /\ CommandFilter(m, CommandNames[k])
    /\ \A j \in 1..(k - 1) : ~CommandFilter(m, CommandNames[j])

\* a command handler answers with text and returns
AnswerCommand(r, m, text) ==
    /\ loc' = [loc EXCEPT ![r] = [InitLoc EXCEPT !.message = Some(m)]]
    /\ sent' = [sent EXCEPT ![r] = Some(text)]
    /\ pc' = [pc EXCEPT ![r] = "replied"]
    /\ UNCHANGED <<constructed, db_schema, system_prompt, introspection, db, locked,
                   waiters, result>>

start_command(r, Messages) ==
    /\ constructed
    /\ pc[r] = "idle"
    /\ \E m \in Messages : Routed(m, 1) /\ AnswerCommand(r, m, <<WelcomeText>>)

help_command(r, Messages) ==
    /\ constructed
    /\ pc[r] = "idle"
    /\ \E m \in Messages : Routed(m, 2) /\ AnswerCommand(r, m, <<HelpText>>)

stats_command(r, Messages) ==
    /\ constructed
    /\ pc[r] = "idle"
    /\ \E m \in Messages : Routed(m, 3) /\ AnswerCommand(r, m, StatsText(db_schema))

----------------------------------------------------------------------------
(* DataBaseManager.insert_video and insert_snapshot.  When the statement   *)
(* raises, the method prints, returns False and leaves the rows as they    *)
(* were.                                                                   *)

insert_video(VideoIds) ==
    /\ \E v \in VideoIds : db' = WithVideo(db, v)
    /\ UNCHANGED <<constructed, db_schema, system_prompt, introspection, locked, waiters,
                   pc, loc, result, sent>>

insert_snapshot(SnapshotIds, VideoIds) ==
    /\ \E s \in SnapshotIds : \E v \in VideoIds : db' = WithSnapshot(db, s, v)
    /\ UNCHANGED <<constructed, db_schema, system_prompt, introspection, locked, waiters,
                   pc, loc, result, sent>>

----------------------------------------------------------------------------
(* Inputs.                                                                 *)

Questions == {<<"s", "k", "o", "l", "k", "o", " ", "v", "s", "e", "g", "o", " ", "p", "r", "o", "s", "m", "o", "t", "r", "o", "v", " ", "u", " ", "v", "s", "e", "h", " ", "v", "i", "d", "e", "o", "?">>}

AllQuestions == Questions \cup {<<" ", "s", "k", "o", "l", "k", "o", " ", "l", "a", "y", "k", "o", "v", " ", "u", " ", "v", "i", "d", "e", "o", " ", "X", "?", "\n">>}

\* the commands, alone and with an argument, texts that are nearly commands,
\* and questions
Messages ==
    AllQuestions
    \cup {<<"/", "s", "t", "a", "r", "t">>, <<"/", "h", "e", "l", "p">>, <<"/", "s", "t", "a", "t", "s">>, <<"/", "s", "t", "a", "r", "t", " ", "n", "o", "w">>, <<"/", "h", "e", "l", "p", "\n", "m", "e">>,
          <<"/", "s", "t", "a", "t", "s", " ", "v", "i", "d", "e", "o", "s">>}
    \cup {<<"/", "S", "t", "a", "r", "t">>, <<"/", "s", "t", "a", "t">>, <<"/", "s", "t", "a", "t", "s", "v", "i", "d", "e", "o">>, <<"/", " ", "s", "t", "a", "r", "t">>, <<"s", "t", "a", "r", "t">>,
          <<"s", "k", "o", "l", "k", "o", " ", "/", "s", "t", "a", "t", "s", "?">>, <<"/", "t", "o", "p">>}

\* the primary keys of the rows inserted
VideoIds == 1..MaxRows
SnapshotIds == 1..MaxRows

\* errors of the Query Generator call and of sqlite, as str(e)
GenErrors == {Error("APIError", "503 UNAVAILABLE")}
SqlErrors == {Error("OperationalError", "no such column: x")}

\* three answers of the model: accepted, not a SELECT, no blank line
Texts ==
    {<<"S", "E", "L", "E", "C", "T", " ", "S", "U", "M", "(", "v", "i", "e", "w", "s", "_", "c", "o", "u", "n", "t", ")", " ", "F", "R", "O", "M", " ", "v", "i", "d", "e", "o", "s", ";", "\n", "\n", "1", "5", "0", "0", "0", "0">>,
     <<"D", "R", "O", "P", " ", "T", "A", "B", "L", "E", " ", "v", "i", "d", "e", "o", "s", ";", "\n", "\n", "1">>,
     <<"S", "E", "L", "E", "C", "T", " ", "C", "O", "U", "N", "T", "(", "*", ")", " ", "F", "R", "O", "M", " ", "v", "i", "d", "e", "o", "s", ";">>}

\* the same three kinds of answers, short
ShortTexts == {<<"s", "e", "l", "e", "c", "t", " ", "1", " ", "f", "r", "o", "m", " ", "v", "\n", "\n", "1">>, <<"d", "r", "o", "p", "\n", "\n", "1">>, <<"s", "e", "l", "e", "c", "t", " ", "1">>}

ResultSets ==
    {<<>>, <<<<NullValue>>>>, <<<<IntValue(150000)>>>>}

\* texts put together from padding, a first segment, a separator, a second
\* segment and padding
Pads == {<<>>, <<" ">>, <<"\n">>, <<"\n", "\n">>}

Segments ==
    {<<"s", "e", "l", "e", "c", "t", " ", "x", " ", "f", "r", "o", "m", " ", "v">>,
     <<"S", "E", "L", "E", "C", "T", " ", "x", " ", "F", "R", "O", "M", " ", "v">>,
     <<"S", "e", "l", "e", "c", "t", " ", "x", "\n", "F", "r", "o", "m", " ", "v">>,
     <<"s", "e", "l", "e", "c", "t", " ", "x", "f", "r", "o", "m", " ", "v">>,
     <<"s", "e", "l", "e", "c", "t", " ", "x", " ", "f", "r", "o", "m", " ", "v", ";", " ", "d", "r", "o", "p", " ", "t", "a", "b", "l", "e", " ", "v">>,
     <<"s", "e", "l", "e", "c", "t", " ", "x">>,
     <<"s", "e", "l", "e", "c", "t", "x", " ", "f", "r", "o", "m", " ", "v">>,
     <<"f", "r", "o", "m", " ", "v", " ", "s", "e", "l", "e", "c", "t", " ", "x">>,
     <<"D", "R", "O", "P", " ", "T", "A", "B", "L", "E", " ", "v", ";">>,
     <<"D", "E", "L", "E", "T", "E", " ", "F", "R", "O", "M", " ", "v">>,
     <<"u", "p", "d", "a", "t", "e", " ", "v", " ", "s", "e", "t", " ", "x">>,
     <<>>}

Separators ==
    {<<>>, <<"\n">>, <<"\n", "\n">>, <<"\n", " ", "\n">>, <<"\n", "\n", "\n">>, <<"\n", "\n", "\n", "\n">>, <<" ", "\n", "\n", " ">>}

Answers == {<<>>, <<"5">>, <<"a", "\n", "\n", "b">>, <<"1", "5", " ", "0", "0", "0">>}

AllTexts ==
    {p \o s \o b \o a \o q :
        p \in Pads, s \in Segments, b \in Separators, a \in Answers, q \in Pads}

\* the integers near the grouping threshold, and those whose groups of three
\* digits are the edge cases of padding
Edge3 == {0, 1, 9, 10, 99, 100, 150, 999}

IntSamples ==
    (-1100..1100)
    \cup {m * 1000000 + t * 1000 + u : m \in 0..MaxMillions, t \in Edge3, u \in Edge3}
    \cup {-(m * 1000000 + t * 1000 + u) : m \in 0..MaxMillions, t \in Edge3, u \in Edge3}

Values ==
    {NullValue} \cup {IntValue(n) : n \in IntSamples}
    \cup {TextValue(<<"c", "r", "e", "a", "t", "o", "r", "1", "2", "3", " ", "(", "1", "5", " ", "v", "i", "d", "e", "o", ")">>), TextValue(<<>>)}

\* result sets of no row, of one row of one column, and of two rows of two
\* columns
AllResultSets ==
    {<<>>}
    \cup {<<<<v>>>> : v \in Values}
    \cup {<<<<v, w>>, <<w, v>>>> :
             v \in {NullValue, IntValue(7), IntValue(1000)},
             w \in {NullValue, IntValue(7), IntValue(1000)}}

----------------------------------------------------------------------------
(* Specifications.                                                         *)

\* the steps of request r
Handler(r, Q, T, R) ==
    \/ Receive(r, Q)
    \/ Acquire(r)
    \/ BuildPrompt(r)
    \/ Generate(r, T, GenErrors)
    \/ Parse(r)
    \/ Validate(r)
    \/ Execute(r, R, SqlErrors)
    \/ Format(r)
    \/ Reply(r)
    \/ Finish(r)

\* the bot: concurrent requests against one analyzer, constructed on the
\* store as create_tables leaves it or on a store that cannot be opened
Next ==
    \/ Construct({StoreOf(db)}, {0, 1})
    \/ \E r \in Reqs :
          \/ Handler(r, Questions, Texts, ResultSets)
          \/ Wait(r)
          \/ WakeUp(r)

Spec == Init /\ [][Next]_vars

\* one request, every text of the model, the analyzer constructed on the store
NextParse ==
    \/ Construct({StoreOf(db)}, {0})
    \/ Handler(1, AllQuestions, AllTexts, ResultSets)

SpecParse == Init /\ [][NextParse]_vars

\* one request, every result set, the analyzer constructed on the store
NextFormat ==
    \/ Construct({StoreOf(db)}, {0})
    \/ Handler(1, AllQuestions, Texts, AllResultSets)

SpecFormat == Init /\ [][NextFormat]_vars

\* the startup: the analyzer constructed on every store the inserts build,
\* with every failing read of the introspection, and its schema shown by /stats
NextSchema ==
    \/ insert_video(VideoIds)
    \/ insert_snapshot(SnapshotIds, VideoIds)
    \/ Construct({StoreOf(db)}, 0..NumReads(StoreOf(db)))
    \/ stats_command(1, Messages)

SpecSchema == Init /\ [][NextSchema]_vars

\* the steps of request r inside generate_sql_and_answer
Step(r) ==
    \/ Acquire(r)
    \/ Wait(r)
    \/ WakeUp(r)
    \/ BuildPrompt(r)
    \/ Generate(r, ShortTexts, GenErrors)
    \/ Parse(r)
    \/ Validate(r)
    \/ Execute(r, ResultSets, SqlErrors)
    \/ Format(r)

\* the bot with fair scheduling: the event loop runs every coroutine that can
\* take a step inside generate_sql_and_answer, and the calls of the Query
\* Generator and of sqlite return or raise
NextLive ==
    \/ Construct({StoreOf(db)}, {0, 1})
    \/ \E r \in Reqs :
          \/ Handler(r, Questions, ShortTexts, ResultSets)
          \/ Wait(r)
          \/ WakeUp(r)

SpecLive == Init /\ [][NextLive]_vars /\ \A r \in Reqs : WF_vars(Step(r))

\* one chat: commands and text messages through the dispatcher
NextRoute ==
    \/ Construct({StoreOf(db)}, {0})
    \/ start_command(1, Messages)
    \/ help_command(1, Messages)
    \/ stats_command(1, Messages)
    \/ Handler(1, Messages, Texts, ResultSets)

SpecRoute == Init /\ [][NextRoute]_vars

\* the rows change under the running bot: inserts, the analyzer constructed
\* on the store, one request
NextStore ==
    \/ insert_video(VideoIds)
    \/ insert_snapshot(SnapshotIds, VideoIds)
    \/ Construct({StoreOf(db)}, {0, 1})
    \/ Handler(1, Questions, Texts, ResultSets)

SpecStore == Init /\ [][NextStore]_vars

----------------------------------------------------------------------------
(* What the claims speak of.                                               *)

\* generate_sql_and_answer has returned a dictionary for request r
HasReturned(r) == pc[r] \in Returned \cup {"replied"}

Res(r) == result[r][1]

\* the Query Generator returned a text for request r
HasText(r) == loc[r].response # None /\ loc[r].response[1] # None

RawText(r) == loc[r].response[1][1]

\* the text before and after the first pair of consecutive newlines of s
BeforeBlank(s) ==
    IF Find(s, BlankLine) = 0 THEN s ELSE SubSeq(s, 1, Find(s, BlankLine) - 1)

AfterBlank(s) ==
    IF Find(s, BlankLine) = 0 THEN <<>> ELSE From(s, Find(s, BlankLine) + 2)

\* the trimmed first segment of the raw text, and of the trimmed text
RawFirstSegment(r) == Strip(BeforeBlank(RawText(r)))

FirstSegment(r) == Strip(BeforeBlank(Strip(RawText(r))))

\* s begins with `select `, whatever the case of its letters
BeginsWithSelect(s) == Len(s) >= 7 /\ Lower(SubSeq(s, 1, 7)) = <<"s", "e", "l", "e", "c", "t", " ">>

\* s contains `from `, whatever the case of its letters
HasFrom(s) == \E i \in 1..Len(s) : i + 4 <= Len(s) /\ Lower(SubSeq(s, i, i + 4)) = <<"f", "r", "o", "m", " ">>

\* s matches ^select .* from .* with the case ignored: `select `, then
\* characters other than a newline, then ` from `
MatchesSelectFrom(s) ==
    /\ BeginsWithSelect(s)
    /\ \E i \in 8..Len(s) :
          /\ i + 5 <= Len(s)
          /\ Lower(SubSeq(s, i, i + 5)) = <<" ", "f", "r", "o", "m", " ">>
          /\ \A j \in 8..(i - 1) : s[j] # "\n"

\* the failures inside generate_sql_and_answer
GeneratorFailed(r) == loc[r].gen_calls = 1 /\ loc[r].response = None

NoText(r) == loc[r].response # None /\ loc[r].response[1] = None

NoBlankLine(r) == HasText(r) /\ ~Contains(Strip(RawText(r)), BlankLine)

NotSelect(r) ==
    /\ HasText(r)
    /\ Contains(Strip(RawText(r)), BlankLine)
    /\ ~(BeginsWithSelect(FirstSegment(r)) /\ HasFrom(FirstSegment(r)))

ExecutionFailed(r) == loc[r].executed # <<>> /\ loc[r].rows = None

SomethingFailed(r) ==
    \/ GeneratorFailed(r)
    \/ NoText(r)
    \/ NoBlankLine(r)
    \/ NotSelect(r)
    \/ ExecutionFailed(r)

IsFailureResult(res) ==
    /\ res.success = FALSE
    /\ "error" \in DOMAIN res
    /\ res.error # None
    /\ res.sql_query = None
    /\ res.final_answer = FailureAnswer

----------------------------------------------------------------------------
(* C1.  Whatever fails inside generate_sql_and_answer (the Query Generator *)
(* call, a response without two segments, the rejection of a statement     *)
(* that is no SELECT, the execution of the statement), no exception leaves *)
(* the call, and the dictionary it returns has success False, an error     *)
(* message, sql_query None and the fixed failure string as final_answer.   *)

C1_FailureIsReturned ==
    \A r \in Reqs :
        /\ pc[r] # "Raised"
        /\ (HasReturned(r) /\ SomethingFailed(r)) =>
              (result[r] # None /\ IsFailureResult(Res(r)))

C1_Witness ==
    \E r \in Reqs :
        pc[r] = "Failed" /\ ExecutionFailed(r) /\ IsFailureResult(Res(r))

----------------------------------------------------------------------------
(* C2, as stated.  For every model output that contains a blank-line       *)
(* separator and whose trimmed first segment matches ^select .* from .*,   *)
(* the sql_query of the result is that trimmed first segment and it is     *)
(* the statement handed to _execute_sql_query.                             *)

C2_AsStated ==
    \A r \in Reqs :
        (/\ HasReturned(r)
         /\ HasText(r)
         /\ Contains(RawText(r), BlankLine)
         /\ MatchesSelectFrom(RawFirstSegment(r)))
        => (/\ result[r] # None
            /\ Res(r).sql_query = Some(RawFirstSegment(r))
            /\ loc[r].executed = <<RawFirstSegment(r)>>)

(* C2, amended.  For every model output that still contains a blank-line   *)
(* separator once trimmed and whose trimmed first segment matches          *)
(* ^select .* from .*, parsing and validation succeed, that segment is     *)
(* sql_query and the one statement handed to _execute_sql_query, and it    *)
(* is the sql_query of the result unless the execution fails.              *)

C2_AcceptedSelect ==
    \A r \in Reqs :
        (/\ HasText(r)
         /\ Contains(Strip(RawText(r)), BlankLine)
         /\ MatchesSelectFrom(FirstSegment(r))
         /\ pc[r] # "Generated")
        => (/\ loc[r].sql_query = Some(FirstSegment(r))
            /\ pc[r] \notin {"Parsed", "Validated"} =>
                  loc[r].executed = <<FirstSegment(r)>>
            /\ (HasReturned(r) /\ ~ExecutionFailed(r)) =>
                  (/\ result[r] # None
                   /\ Res(r).success
                   /\ Res(r).sql_query = Some(FirstSegment(r))))

C2_Witness ==
    \E r \in Reqs :
        /\ pc[r] = "Formatted"
        /\ RawText(r) # Strip(RawText(r))
        /\ FirstSegment(r) = <<"S", "E", "L", "E", "C", "T", " ", "x", " ", "F", "R", "O", "M", " ", "v">>
        /\ Res(r).sql_query = Some(<<"S", "E", "L", "E", "C", "T", " ", "x", " ", "F", "R", "O", "M", " ", "v">>)
        /\ loc[r].executed = <<<<"S", "E", "L", "E", "C", "T", " ", "x", " ", "F", "R", "O", "M", " ", "v">>>>

----------------------------------------------------------------------------
(* C3.  For every two-segment model output whose trimmed first segment     *)
(* does not begin with `select ` or does not contain `from `, the request  *)
(* is never validated, no statement is handed to _execute_sql_query, and   *)
(* the call returns success False with the not-a-SELECT error.             *)

C3_NotSelectNeverExecuted ==
    \A r \in Reqs :
        NotSelect(r) =>
            (/\ loc[r].executed = <<>>
             /\ pc[r] \notin {"Validated", "Executed", "Formatted", "Raised"}
             /\ HasReturned(r) =>
                   (/\ result[r] # None
                    /\ Res(r).success = FALSE
                    /\ Res(r).error = Some(NotSelectMessage)))

C3_Witness ==
    \E r \in Reqs :
        /\ pc[r] = "Failed"
        /\ HasText(r)
        /\ FirstSegment(r) = <<"D", "R", "O", "P", " ", "T", "A", "B", "L", "E", " ", "v", ";">>
        /\ Contains(Strip(RawText(r)), BlankLine)
        /\ loc[r].executed = <<>>

----------------------------------------------------------------------------
(* C4.  For every model output without a blank-line separator, the call    *)
(* returns success False with the malformed-response error and the fixed   *)
(* failure string as final_answer, and the request is neither validated    *)
(* nor executed.                                                           *)

C4_NoBlankLineIsMalformed ==
    \A r \in Reqs :
        (HasText(r) /\ ~Contains(RawText(r), BlankLine)) =>
            (/\ pc[r] \notin {"Parsed", "Validated", "Executed", "Formatted", "Raised"}
             /\ loc[r].sql_query = None
             /\ loc[r].executed = <<>>
             /\ HasReturned(r) =>
                   (/\ result[r] # None
                    /\ Res(r).success = FALSE
                    /\ Res(r).error = Some(MalformedMessage)
                    /\ Res(r).final_answer = FailureAnswer))

C4_Witness ==
    \E r \in Reqs :
        /\ pc[r] = "Failed"
        /\ HasText(r)
        /\ RawText(r) # <<>>
        /\ ~Contains(RawText(r), BlankLine)
        /\ Res(r).error = Some(MalformedMessage)

----------------------------------------------------------------------------
(* C5.  When a request fails, the text sent to the end user is the same    *)
(* for every error, and the error message is no part of it.                *)

FailedAndReplied(r) == pc[r] = "replied" /\ result[r] # None /\ ~Res(r).success

C5_UniformFailureText ==
    \A r \in Reqs :
        FailedAndReplied(r) =>
            (/\ \A i \in 1..Len(sent[r][1]) : sent[r][1][i] # Res(r).error[1]
             /\ \A q \in Reqs : FailedAndReplied(q) => sent[q] = sent[r])

----------------------------------------------------------------------------
(* C6.  At every moment at most one request is inside the lock, between    *)
(* entering generate_sql_and_answer's block and returning from it, and so  *)
(* at most one is between its Query Generator call and the end of its SQL  *)
(* execution.                                                              *)

C6_OneRequestInPipeline ==
    Cardinality({r \in Reqs : pc[r] \in InPipeline}) <= 1

C6_Witness ==
    \E r \in Reqs : \E q \in Reqs :
        /\ pc[r] = "Validated"
        /\ pc[q] = "waiting"
        /\ locked

----------------------------------------------------------------------------
(* C7.  _format_answer gives the no-data string for None, the decimal      *)
(* digits in groups of three from the right, separated by one space, for   *)
(* every int of 1000 or more, and the plain decimal form for every int     *)
(* below 1000, zero and the negative ones included.                        *)

DigitValue(c) == CHOOSE d \in 0..9 : Digits[d + 1] = c

IsDigit(c) == \E d \in 0..9 : Digits[d + 1] = c

\* the number a sequence of digits writes
RECURSIVE StrToNat(_)
StrToNat(s) ==
    IF s = <<>> THEN 0
    ELSE StrToNat(SubSeq(s, 1, Len(s) - 1)) * 10 + DigitValue(s[Len(s)])

\* s is the decimal form of n, with no sign and no leading zero
IsDecimalOf(s, n) ==
    /\ Len(s) >= 1
    /\ \A i \in 1..Len(s) : IsDigit(s[i])
    /\ Len(s) > 1 => s[1] # "0"
    /\ StrToNat(s) = n

\* s is the decimal form of the int n
IsPlainInt(s, n) ==
    IF n < 0
    THEN Len(s) >= 2 /\ s[1] = "-" /\ IsDecimalOf(Tail(s), -n)
    ELSE IsDecimalOf(s, n)

\* s is the digits of n in groups: the first of one to three digits, the
\* others of three, one space between two groups
IsGroupedInt(s, n) ==
    /\ Len(Split(s, <<" ">>)) >= 2
    /\ Len(Split(s, <<" ">>)[1]) \in 1..3
    /\ \A i \in 2..Len(Split(s, <<" ">>)) : Len(Split(s, <<" ">>)[i]) = 3
    /\ IsDecimalOf(RemoveChar(s, " "), n)

C7_FormatAnswer ==
    \A r \in Reqs :
        (pc[r] \in {"Formatted", "replied"} /\ result[r] # None /\ Res(r).success) =>
            LET v == Res(r).actual_result
                a == Res(r).final_answer
            IN  /\ v = NullValue => a = NoDataAnswer
                /\ (v.t = "int" /\ v.n >= 1000) => IsGroupedInt(a, v.n)
                /\ (v.t = "int" /\ v.n < 1000) => IsPlainInt(a, v.n)
                /\ v = IntValue(1000) => a = <<"1", " ", "0", "0", "0">>
                /\ v = IntValue(150000) => a = <<"1", "5", "0", " ", "0", "0", "0">>
                /\ v = IntValue(999) => a = <<"9", "9", "9">>

C7_Witness ==
    \E r \in Reqs :
        /\ pc[r] = "Formatted"
        /\ Res(r).actual_result = IntValue(1010099)
        /\ Res(r).final_answer = <<"1", " ", "0", "1", "0", " ", "0", "9", "9">>

----------------------------------------------------------------------------
(* C8.  _execute_sql_query returns the first column of the first row of    *)
(* the result set and None when the result set is empty; a request whose   *)
(* statement yields None ends with success True, actual_result None and    *)
(* the no-data string, not the failure string, as final_answer.            *)

C8_FirstColumnOfFirstRow ==
    \A r \in Reqs :
        /\ loc[r].rows # None =>
              loc[r].actual_result =
                 Some(IF loc[r].rows[1] = <<>> THEN NullValue
                      ELSE loc[r].rows[1][1][1])
        /\ (pc[r] \in {"Formatted", "replied"} /\ loc[r].actual_result = Some(NullValue)) =>
              (/\ result[r] # None
               /\ Res(r).success
               /\ Res(r).actual_result = NullValue
               /\ Res(r).final_answer = NoDataAnswer
               /\ Res(r).final_answer # FailureAnswer)

C8_Witness ==
    \E r \in Reqs :
        /\ pc[r] = "Formatted"
        /\ loc[r].rows = Some(<<>>)
        /\ Res(r).success
        /\ Res(r).final_answer = NoDataAnswer

----------------------------------------------------------------------------
(* C9.  If any read of the store fails during _get_database_schema, the    *)
(* schema the analyzer is constructed with has no tables and no            *)
(* statistics.                                                             *)

C9_EmptySchemaOnFailure ==
    (constructed /\ introspection # None /\ introspection[1].failAt # 0) =>
        (db_schema.tables = <<>> /\ db_schema.statistics = <<>>)

----------------------------------------------------------------------------
(* C10.  For every accepted model output, the suggested answer of the      *)
(* result is the whole text after the first pair of consecutive newlines,  *)
(* trimmed, and it is not empty.                                           *)

C10_AnswerIsRestOfText ==
    \A r \in Reqs :
        (HasText(r) /\ result[r] # None /\ Res(r).success) =>
            (/\ Res(r).llm_suggested_answer = Strip(AfterBlank(Strip(RawText(r))))
             /\ Res(r).llm_suggested_answer # <<>>)

----------------------------------------------------------------------------
(* C11.  Every request moves through Idle, PromptBuilt, Generated, Parsed, *)
(* Validated, Executed, Formatted one stage at a time, never skipping or   *)
(* revisiting a stage; it enters Idle from outside the pipeline only; it   *)
(* moves to Failed only from the call of the Query Generator (stage        *)
(* PromptBuilt) or from a stage at or after Generated; Formatted and       *)
(* Failed are left only by the reply, so a request ends in exactly one of  *)
(* them; the Query Generator is called at most once, and only by the step  *)
(* out of PromptBuilt, and at most one statement is executed, and only by  *)
(* the step out of Validated.                                              *)

StageOrder ==
    <<"Idle", "PromptBuilt", "Generated", "Parsed", "Validated", "Executed", "Formatted">>

IsStage(s) == \E i \in 1..Len(StageOrder) : StageOrder[i] = s

StageIndex(s) == CHOOSE i \in 1..Len(StageOrder) : StageOrder[i] = s

StageStep(r) ==
    /\ (IsStage(pc[r]) /\ pc[r] # "Formatted" /\ pc'[r] # pc[r]) =>
          \/ IsStage(pc'[r]) /\ StageIndex(pc'[r]) = StageIndex(pc[r]) + 1
          \/ pc'[r] = "Failed" /\ StageIndex(pc[r]) >= 2
    /\ (pc[r] \in {"Formatted", "Failed"} /\ pc'[r] # pc[r]) => pc'[r] = "replied"
    /\ (~IsStage(pc[r]) /\ IsStage(pc'[r])) =>
          (pc'[r] = "Idle" /\ pc[r] \in {"called", "waiting"})
    /\ (pc[r] # "Failed" /\ pc'[r] = "Failed") => IsStage(pc[r])
    /\ loc'[r].gen_calls <= 1
    /\ Len(loc'[r].executed) <= 1
    /\ loc'[r].gen_calls > loc[r].gen_calls => pc[r] = "PromptBuilt"
    /\ Len(loc'[r].executed) > Len(loc[r].executed) => pc[r] = "Validated"

C11_StagesInOrder == [][\A r \in Reqs : StageStep(r)]_vars

C11_Witness ==
    \E r, q \in Reqs :
        /\ pc[r] = "Formatted"
        /\ loc[r].gen_calls = 1
        /\ Len(loc[r].executed) = 1
        /\ pc[q] = "Failed"
        /\ loc[q].gen_calls = 1
        /\ loc[q].executed = <<>>

----------------------------------------------------------------------------
(* C12.  Whenever _get_database_schema or _execute_sql_query has returned  *)
(* or raised, the connection it opened has been closed: no request and no  *)
(* introspection is left with an open connection.                          *)

C12_ConnectionsClosed ==
    /\ \A r \in Reqs : loc[r].conn # "open"
    /\ introspection # None => introspection[1].conn # "open"

----------------------------------------------------------------------------
(* C13.  Once the analyzer is constructed, no step (a request, successful  *)
(* or failed, or an insert into the store) changes db_schema,              *)
(* system_prompt or the record of the one introspection, and the prompt of *)
(* every request is the template rendered from the tables read at startup  *)
(* with the question of that request.                                      *)

\* the schema the one introspection of __init__ returned
StartupSchema == GetDatabaseSchema(introspection[1].store, introspection[1].failAt)

PromptFromStartup(r) ==
    loc[r].full_prompt # None =>
        /\ loc[r].full_prompt[1].schema = StartupSchema.tables
        /\ loc[r].full_prompt[1].question = loc[r].question[1]

C13_BuiltOnce ==
    [][constructed =>
          /\ constructed'
          /\ db_schema' = db_schema
          /\ system_prompt' = system_prompt
          /\ introspection' = introspection
          /\ db_schema = StartupSchema
          /\ \A r \in Reqs : PromptFromStartup(r)']_vars

\* the rows have changed since the startup, and a request built its prompt
\* and failed in the execution
C13_Witness ==
    /\ constructed
    /\ introspection[1].failAt = 0
    /\ StoreOf(db) # introspection[1].store
    /\ pc[1] = "Failed"
    /\ loc[1].full_prompt # None
    /\ loc[1].executed # <<>>

----------------------------------------------------------------------------
(* C14.  Under fair scheduling, where every call of the Query Generator    *)
(* and of sqlite returns or raises, a request that has called              *)
(* generate_sql_and_answer or waits for the lock eventually returns from   *)
(* it, in Formatted or Failed: no request holds the lock forever, whatever *)
(* way it leaves the pipeline.                                             *)

C14_WaitersServed ==
    \A r \in Reqs : (pc[r] \in {"called", "waiting"}) ~> (pc[r] \in Returned)

\* a request waits at the lock that a failed request has just released
C14_Witness ==
    \E r, q \in Reqs :
        /\ pc[q] = "waiting"
        /\ pc[r] = "Failed"
        /\ ~locked

----------------------------------------------------------------------------
(* C15.  A message whose text is /start, /help or /stats, alone or         *)
(* followed by arguments, is answered by its command handler and causes no *)
(* call of generate_sql_and_answer: the request never enters the pipeline  *)
(* and no result is attached to it.  Every other text message causes       *)
(* exactly one call.                                                       *)

MetaCommands == {<<"/", "s", "t", "a", "r", "t">>, <<"/", "h", "e", "l", "p">>, <<"/", "s", "t", "a", "t", "s">>}

\* the text is a meta-command: the command itself, or the command, a
\* whitespace character and anything
IsMetaCommand(text) ==
    \E c \in MetaCommands :
        /\ Len(text) >= Len(c)
        /\ SubSeq(text, 1, Len(c)) = c
        /\ Len(text) > Len(c) => text[Len(c) + 1] \in Whitespace

C15_CommandsNotForwarded ==
    \A r \in Reqs :
        loc[r].message # None =>
            IF IsMetaCommand(loc[r].message[1])
            THEN /\ loc[r].analyzer_calls = 0
                 /\ loc[r].gen_calls = 0
                 /\ pc[r] = "replied"
                 /\ result[r] = None
            ELSE loc[r].analyzer_calls = 1

\* /stats with an argument was answered from db_schema without a call
C15_Witness ==
    /\ pc[1] = "replied"
    /\ loc[1].message = Some(<<"/", "s", "t", "a", "t", "s", " ", "v", "i", "d", "e", "o", "s">>)
    /\ loc[1].analyzer_calls = 0
    /\ sent[1] = Some(StatsText(db_schema))

----------------------------------------------------------------------------
(* C16.  After any sequence of insert_video and insert_snapshot, every     *)
(* snapshot row carries the video_id of a row of videos.                   *)

C16_SnapshotsReferenceVideos ==
    \A s \in db.snapshots : s.video_id \in db.videos

----------------------------------------------------------------------------
(* C17.  For every successful request the text handed to message.answer is *)
(* the final_answer of the result without its space characters and with    *)
(* every other character in place: "150 000" is sent as "150000", and the  *)
(* no-data string is sent without its spaces.                              *)

NotSpace(c) == c # " "

====
